---- MODULE Spec2Model ----
(***************************************************************************)
(* Model of the matching-and-alignment engine of SP-dock                   *)
(* (src/src/docker/docker.cpp): Docker::build_matching_groups and          *)
(* Docker::transformations_from_matching_groups.                           *)
(*                                                                         *)
(* Patch and ligand indices are 0-based as in the source; the descriptor   *)
(* sequences are TLA+ sequences, so desc[i] of the source is At(desc, i).  *)
(* Positions are integer points of R^3 and curvatures positive integers;   *)
(* a double is modelled by the exact rational it holds.                    *)
(***************************************************************************)
EXTENDS Integers, Sequences, FiniteSets, TLC

\* Largest number of target patches / ligand patches drawn as input.
MaxT == 2
MaxL == 2
\* Largest total number of patches (target and ligand together).
MaxPatches == 4

\* Input domains.
Convexity == {"convex", "concave"}
TargetCurvatures == {1, 2}
LigandCurvatures == {1, 2}
Positions == {<<0, 0, 0>>, <<1, 1, 0>>}
NBestValues == {1, 2}
GThreshValues == {0, 1}

VARIABLES
    desc_target,        \* SurfaceDescriptors of the target (read-only input)
    desc_ligand,        \* SurfaceDescriptors of the ligand (read-only input)
    N_BEST_PAIRS,       \* Parameters::N_BEST_PAIRS
    G_THRESH,           \* Parameters::G_THRESH
    pc,                 \* position in the run
    t,                  \* loop variable of the outer loop (target patch index)
    similarity_list,    \* the .second (ligand index) of every entry kept for t
    lig,                \* position of the iterator lig in similarity_list (1-based)
    groups_out,         \* std::vector<MatchingGroup>, a group is a sequence of <<t, l>>
    mg_transformation   \* std::vector<glm::dmat4>

vars == <<desc_target, desc_ligand, N_BEST_PAIRS, G_THRESH, pc, t,
          similarity_list, lig, groups_out, mg_transformation>>

-----------------------------------------------------------------------------
(* Helpers *)

Abs(x) == IF x < 0 THEN -x ELSE x
Max(a, b) == IF a < b THEN b ELSE a
SeqsUpTo(S, n) == UNION {[1..k -> S] : k \in 0..n}

\* desc[i] with the 0-based index of the source
At(desc, i) == desc[i + 1]

\* A (Patch, Descriptor) entry: the descriptor's type and curv, the patch's get_pos()
TargetEntries == [type : Convexity, curv : TargetCurvatures, pos : Positions]
LigandEntries == [type : Convexity, curv : LigandCurvatures, pos : Positions]

-----------------------------------------------------------------------------
(* geodesic_distance: glm::length(n1 - n2) converted to the int return type *)

SqLength(n1, n2) ==
    (n1[1] - n2[1]) * (n1[1] - n2[1])
  + (n1[2] - n2[2]) * (n1[2] - n2[2])
  + (n1[3] - n2[3]) * (n1[3] - n2[3])

\* the double -> int conversion of sqrt(n): truncation towards zero
TruncSqrt(n) == CHOOSE r \in 0..n : r * r <= n /\ (r + 1) * (r + 1) > n

geodesic_distance(lhs_patch_ind, rhs_patch_ind, desc) ==
    TruncSqrt(SqLength(At(desc, lhs_patch_ind).pos, At(desc, rhs_patch_ind).pos))

-----------------------------------------------------------------------------
(* The ranking step of build_matching_groups, lines 94-113 *)

\* dist = fabs(t.curv - l.curv) / std::max(t.curv, l.curv), as <<numerator, denominator>>
Dissimilarity(t_patch, l_patch) ==
    <<Abs(t_patch.curv - l_patch.curv), Max(t_patch.curv, l_patch.curv)>>

\* operator< of double on two quotients with positive denominators
DistLess(a, b) == a[1] * b[2] < b[1] * a[2]
DistEq(a, b) == a[1] * b[2] = b[1] * a[2]

\* PairLess with the distance left out of the comparison (entries ordered by
\* ligand index alone)
PairLessBySecondOnly(a, b) == a[2] < b[2]

\* operator< of std::pair<double,int>: lexicographic
PairLess(a, b) ==
    \/ DistLess(a[1], b[1])
    \/ DistEq(a[1], b[1]) /\ a[2] < b[2]

\* the loop of lines 95-104: entries <<dist, l>> pushed for l = from .. size-1
RECURSIVE PushEligible(_, _, _)
PushEligible(tt, l, list) ==
    IF l >= Len(desc_ligand) THEN list
    ELSE PushEligible(tt, l + 1,
            IF At(desc_target, tt).type # At(desc_ligand, l).type
            THEN Append(list, <<Dissimilarity(At(desc_target, tt), At(desc_ligand, l)), l>>)
            ELSE list)

\* std::sort with operator<: the entries are pairwise distinct, so the result
\* is the one ascending arrangement; computed here by insertion
RECURSIVE InsertSorted(_, _)
InsertSorted(e, sorted) ==
    IF sorted = <<>> THEN <<e>>
    ELSE IF PairLess(e, Head(sorted)) THEN <<e>> \o sorted
    ELSE <<Head(sorted)>> \o InsertSorted(e, Tail(sorted))

RECURSIVE SortList(_)
SortList(list) ==
    IF list = <<>> THEN <<>>
    ELSE InsertSorted(Head(list), SortList(Tail(list)))

\* similarity_list after line 110
SortedSimilarityList(tt) == SortList(PushEligible(tt, 0, <<>>))

\* the ligand indices (.second) of a list of entries
Seconds(list) == [i \in 1..Len(list) |-> list[i][2]]

-----------------------------------------------------------------------------
(* The grouping step of build_matching_groups, lines 116-149 *)

\* lines 125-132: the flag grouping_crit after the loop over the group's pairs
GroupingCrit(grp, cur_pair) ==
    \A i \in 1..Len(grp) :
        /\ ~(geodesic_distance(cur_pair[1], grp[i][1], desc_target) > G_THRESH)
        /\ ~(geodesic_distance(cur_pair[2], grp[i][2], desc_ligand) > G_THRESH)

\* lines 123-140: cur_pair pushed to every group whose criterion holds
TryGroups(groups, cur_pair) ==
    [g \in 1..Len(groups) |->
        IF GroupingCrit(groups[g], cur_pair)
        THEN Append(groups[g], cur_pair)
        ELSE groups[g]]

\* the flag added after the loop over the groups
Added(groups, cur_pair) ==
    \E g \in 1..Len(groups) : GroupingCrit(groups[g], cur_pair)

\* ProcessPair with the new group put in front of the list instead of behind it
ProcessPairNewGroupFirst(groups, cur_pair) ==
    IF Added(groups, cur_pair)
    THEN TryGroups(groups, cur_pair)
    ELSE <<<<cur_pair>>>> \o TryGroups(groups, cur_pair)

\* lines 118-148: one iteration of the loop over similarity_list
ProcessPair(groups, cur_pair) ==
    IF Added(groups, cur_pair)
    THEN TryGroups(groups, cur_pair)
    ELSE Append(TryGroups(groups, cur_pair), <<cur_pair>>)

-----------------------------------------------------------------------------
(* transformations_from_matching_groups, lines 165-216 *)

\* step 0: the matching group split into two vectors
target_groups(MG) == [p \in 1..Len(MG) |-> MG[p][1]]
ligand_groups(MG) == [p \in 1..Len(MG) |-> MG[p][2]]

\* build_cloud_from_group: the cloud is the std::set of the node positions of
\* the member patches (each patch contributes once however often it occurs);
\* the normal is accumulated once per occurrence and divided by group.size()
build_cloud_from_group(group) ==
    [cloud  |-> {group[i] : i \in 1..Len(group)},
     normal |-> [x \in {group[i] : i \in 1..Len(group)} |->
                    Cardinality({i \in 1..Len(group) : group[i] = x})],
     size   |-> Len(group)]

\* steps 1-5: final_t is a function of the two merged sides
final_t(MG) ==
    [target |-> build_cloud_from_group(target_groups(MG)),
     ligand |-> build_cloud_from_group(ligand_groups(MG))]

\* the loop over matching_groups, pushing one final_t per iteration
RECURSIVE TransformLoop(_, _, _)
TransformLoop(matching_groups, i, out) ==
    IF i > Len(matching_groups) THEN out
    ELSE TransformLoop(matching_groups, i + 1, Append(out, final_t(matching_groups[i])))

\* TransformAll walking the groups from the last to the first
TransformAllBackwards(matching_groups, out) ==
    TransformLoop([i \in 1..Len(matching_groups) |->
                      matching_groups[Len(matching_groups) + 1 - i]], 1, out)

\* lines 165-216: the whole loop, started at matching_groups.begin()
TransformAll(matching_groups, out) == TransformLoop(matching_groups, 1, out)

-----------------------------------------------------------------------------
(* State machine *)

Init ==
    /\ desc_target \in SeqsUpTo(TargetEntries, MaxT)
    /\ desc_ligand \in SeqsUpTo(LigandEntries, MaxL)
    /\ Len(desc_target) + Len(desc_ligand) <= MaxPatches
    /\ N_BEST_PAIRS \in NBestValues
    /\ G_THRESH \in GThreshValues
    /\ pc = "loop"
    /\ t = 0
    /\ similarity_list = <<>>
    /\ lig = 1
    /\ groups_out = <<>>
    /\ mg_transformation = <<>>

\* where the run continues once the loop over similarity_list has ended
EndOfList ==
    /\ t' = t + 1
    /\ pc' = "loop"

\* lines 86-113 for target patch t, the erase range being valid
RankTarget ==
    /\ pc = "loop"
    /\ t < Len(desc_target)
    /\ LET sorted == SortedSimilarityList(t) IN
        /\ N_BEST_PAIRS <= Len(sorted)
        /\ similarity_list' = Seconds(SubSeq(sorted, 1, N_BEST_PAIRS))
    /\ lig' = 1
    /\ pc' = "group"
    /\ UNCHANGED <<desc_target, desc_ligand, N_BEST_PAIRS, G_THRESH, t,
                   groups_out, mg_transformation>>

\* Line 113 with begin() + N_BEST_PAIRS past end() is undefined behaviour:
\* std::vector::erase is given a range whose first iterator lies behind its
\* last. The builds in use move the end pointer to begin() + N_BEST_PAIRS, and
\* the loop of line 116 then reads entries that were never pushed.
\*
\* Outcome 1: the process is killed. This is the only outcome when the list
\* is empty (its storage is the null pointer, the first read faults), and a
\* possible one otherwise (the entries read lie outside the storage, or hold
\* an index that is no index of desc_ligand).
EraseCrash ==
    /\ pc = "loop"
    /\ t < Len(desc_target)
    /\ N_BEST_PAIRS > Len(SortedSimilarityList(t))
    /\ similarity_list' = Seconds(SortedSimilarityList(t))
    /\ pc' = "crash"
    /\ UNCHANGED <<desc_target, desc_ligand, N_BEST_PAIRS, G_THRESH, t, lig,
                   groups_out, mg_transformation>>

\* Outcome 2: the list has storage, and the entries read past its old end
\* hold indices of desc_ligand: the list is N_BEST_PAIRS long, the pushed
\* entries followed by arbitrary ones, and all of them are processed.
ErasePadded ==
    /\ pc = "loop"
    /\ t < Len(desc_target)
    /\ LET sorted == SortedSimilarityList(t) IN
        /\ N_BEST_PAIRS > Len(sorted)
        /\ Len(sorted) >= 1
        /\ \E garbage \in [1..(N_BEST_PAIRS - Len(sorted)) -> 0..(Len(desc_ligand) - 1)] :
              similarity_list' = Seconds(sorted) \o garbage
    /\ lig' = 1
    /\ pc' = "group"
    /\ UNCHANGED <<desc_target, desc_ligand, N_BEST_PAIRS, G_THRESH, t,
                   groups_out, mg_transformation>>

\* lines 116-149: one iteration of the loop over similarity_list
GroupPair ==
    /\ pc = "group"
    /\ groups_out' = ProcessPair(groups_out, <<t, similarity_list[lig]>>)
    /\ IF lig < Len(similarity_list)
       THEN lig' = lig + 1 /\ pc' = "group" /\ t' = t
       ELSE lig' = lig /\ EndOfList
    /\ UNCHANGED <<desc_target, desc_ligand, N_BEST_PAIRS, G_THRESH,
                   similarity_list, mg_transformation>>

\* line 86 with t = desc_target.size(), then the return of line 152
Return ==
    /\ pc = "loop"
    /\ t >= Len(desc_target)
    /\ pc' = "done"
    /\ UNCHANGED <<desc_target, desc_ligand, N_BEST_PAIRS, G_THRESH, t,
                   similarity_list, lig, groups_out, mg_transformation>>

\* lines 157-219, called on the groups build_matching_groups returned
TransformationsFromMatchingGroups ==
    /\ pc = "done"
    /\ mg_transformation' = TransformAll(groups_out, mg_transformation)
    /\ pc' = "transformed"
    /\ UNCHANGED <<desc_target, desc_ligand, N_BEST_PAIRS, G_THRESH, t,
                   similarity_list, lig, groups_out>>

Next ==
    \/ RankTarget
    \/ EraseCrash
    \/ ErasePadded
    \/ GroupPair
    \/ Return
    \/ TransformationsFromMatchingGroups

Spec == Init /\ [][Next]_vars

-----------------------------------------------------------------------------
(* Vocabulary of the properties, stated on the input data alone *)

TargetIndices == 0..(Len(desc_target) - 1)
LigandIndices == 0..(Len(desc_ligand) - 1)

\* the pair the grouping step is about to process
CurPair == <<t, similarity_list[lig]>>

\* Euclidean distance between two positions <= G_THRESH (G_THRESH >= 0)
EuclidWithinThresh(p, q) ==
    (p[1] - q[1]) * (p[1] - q[1]) + (p[2] - q[2]) * (p[2] - q[2])
        + (p[3] - q[3]) * (p[3] - q[3]) <= G_THRESH * G_THRESH

\* both sides of pair a are within G_THRESH of pair b, by Euclidean distance
PairsWithinThresh(a, b) ==
    /\ EuclidWithinThresh(At(desc_target, a[1]).pos, At(desc_target, b[1]).pos)
    /\ EuclidWithinThresh(At(desc_ligand, a[2]).pos, At(desc_ligand, b[2]).pos)

\* the grouping criterion of a group for a pair, by Euclidean distance
CriterionHolds(grp, pair) ==
    \A i \in 1..Len(grp) : PairsWithinThresh(pair, grp[i])

IsEligible(tt, l) == At(desc_target, tt).type # At(desc_ligand, l).type
EligibleSet(tt) == {l \in LigandIndices : IsEligible(tt, l)}
eligibleCount(tt) == Cardinality(EligibleSet(tt))

\* |curv_t - curv_l| / max(curv_t, curv_l) as numerator and denominator
ScoreNum(tt, l) == Abs(At(desc_target, tt).curv - At(desc_ligand, l).curv)
ScoreDen(tt, l) == Max(At(desc_target, tt).curv, At(desc_ligand, l).curv)
ScoreLess(tt, l1, l2) ==
    ScoreNum(tt, l1) * ScoreDen(tt, l2) < ScoreNum(tt, l2) * ScoreDen(tt, l1)
ScoreEq(tt, l1, l2) ==
    ScoreNum(tt, l1) * ScoreDen(tt, l2) = ScoreNum(tt, l2) * ScoreDen(tt, l1)

\* l1 comes before l2 in the ranking of target patch tt
RankedBefore(tt, l1, l2) ==
    \/ ScoreLess(tt, l1, l2)
    \/ ScoreEq(tt, l1, l2) /\ l1 < l2

\* the eligible ligand patches among the first N_BEST_PAIRS of tt's ranking
KeptSet(tt) ==
    {l \in EligibleSet(tt) :
        Cardinality({k \in EligibleSet(tt) : RankedBefore(tt, k, l)}) < N_BEST_PAIRS}

\* the best-ranked eligible ligand patch of tt
BestCandidate(tt) ==
    CHOOSE l \in EligibleSet(tt) : \A k \in EligibleSet(tt) \ {l} : RankedBefore(tt, l, k)

Min(a, b) == IF a < b THEN a ELSE b

\* every erase of line 113 executed so far had a valid range: the run has met
\* no undefined behaviour
ErasesInRange ==
    \A tt \in TargetIndices :
        (tt < t \/ (tt = t /\ pc = "group")) => eligibleCount(tt) >= N_BEST_PAIRS

IsPrefix(a, b) == Len(a) <= Len(b) /\ SubSeq(b, 1, Len(a)) = a

PairsInGroups ==
    UNION {{groups_out[g][i] : i \in 1..Len(groups_out[g])} : g \in 1..Len(groups_out)}

-----------------------------------------------------------------------------
(* C1 *)

\* C1 (as claimed): at every point of the run, any two pairs of the same
\* group are within G_THRESH of each other, by Euclidean distance between the
\* representative positions, on the target side and on the ligand side (every
\* pair was within G_THRESH of all prior members when it was appended).
\* Stated on the runs whose erase ranges were all valid, so that a violation
\* owes nothing to the undefined behaviour of line 113.
C1_PairwiseEuclidean ==
    ErasesInRange =>
        \A g \in 1..Len(groups_out) :
            \A i \in 1..Len(groups_out[g]) :
                \A j \in 1..(i - 1) :
                    PairsWithinThresh(groups_out[g][i], groups_out[g][j])

-----------------------------------------------------------------------------
(* C2 *)

\* C2 (as claimed): for every target patch t the ranking step keeps exactly
\* min(N_BEST_PAIRS, eligibleCount(t)) candidates, and the truncation never
\* ends in a crash or an undefined state.
C2_KeptCountClamped ==
    /\ pc # "crash"
    /\ pc = "group" => Len(similarity_list) = Min(N_BEST_PAIRS, eligibleCount(t))

-----------------------------------------------------------------------------
(* C3 *)

\* C3 (as claimed): at every point of the run every pair (t, l) of every
\* group has convexityType(target t) # convexityType(ligand l).
C3_GroupsComplementary ==
    \A g \in 1..Len(groups_out) :
        \A i \in 1..Len(groups_out[g]) :
            IsEligible(groups_out[g][i][1], groups_out[g][i][2])

-----------------------------------------------------------------------------
(* C4 *)

\* C4 (as claimed): processing one candidate pair appends it to every
\* existing group whose criterion (Euclidean distance of both sides to all
\* current members <= G_THRESH) holds and to no other group, and appends a new
\* singleton group at the end iff the criterion held for no existing group.
\* Stated on the runs whose erase ranges were all valid, as C1.
C4_AppendedWhereCriterionHolds ==
    [][(pc = "group" /\ ErasesInRange) =>
        /\ \A g \in 1..Len(groups_out) :
              groups_out'[g] = IF CriterionHolds(groups_out[g], CurPair)
                               THEN Append(groups_out[g], CurPair)
                               ELSE groups_out[g]
        /\ IF \E g \in 1..Len(groups_out) : CriterionHolds(groups_out[g], CurPair)
           THEN Len(groups_out') = Len(groups_out)
           ELSE /\ Len(groups_out') = Len(groups_out) + 1
                /\ groups_out'[Len(groups_out) + 1] = <<CurPair>>
    ]_vars

-----------------------------------------------------------------------------
(* C5 *)

\* C5: across every step the group list only grows: no group is empty, the
\* number of groups never decreases, every group keeps its position and its
\* content before the step is a prefix of its content after the step.
C5_GroupsOnlyGrow ==
    [][/\ Len(groups_out') >= Len(groups_out)
       /\ \A g \in 1..Len(groups_out) : IsPrefix(groups_out[g], groups_out'[g])
       /\ \A g \in 1..Len(groups_out') : groups_out'[g] # <<>>
    ]_vars

\* C5 witness: a run in which a group was created behind an existing one and
\* an existing group has received a further member
C5_Witness ==
    /\ Len(groups_out) >= 2
    /\ \E g \in 1..Len(groups_out) : Len(groups_out[g]) >= 2
    /\ groups_out[1] # groups_out[2]

-----------------------------------------------------------------------------
(* C6 *)

\* C6 (as claimed): with an empty target list or an empty ligand list the run
\* never ends in a crash or undefined state, there are zero groups, and there
\* are zero transformations.
C6_EmptyInputNoError ==
    (Len(desc_target) = 0 \/ Len(desc_ligand) = 0) =>
        /\ pc # "crash"
        /\ groups_out = <<>>
        /\ mg_transformation = <<>>

-----------------------------------------------------------------------------
(* C7 *)

-----------------------------------------------------------------------------
(* C8 *)

\* the end-to-end scenario: two target and two ligand patches, N_BEST_PAIRS
\* = 1, pair <<tz, lz>> complementary with equal curvature (score 0), the
\* pair of the other two patches complementary with score > 0, and all
\* centroids of a side within G_THRESH of each other
ScenarioWith(tz, lz) ==
    /\ Len(desc_target) = 2
    /\ Len(desc_ligand) = 2
    /\ N_BEST_PAIRS = 1
    /\ IsEligible(tz, lz)
    /\ ScoreNum(tz, lz) = 0
    /\ IsEligible(1 - tz, 1 - lz)
    /\ ScoreNum(1 - tz, 1 - lz) > 0
    /\ EuclidWithinThresh(At(desc_target, 0).pos, At(desc_target, 1).pos)
    /\ EuclidWithinThresh(At(desc_ligand, 0).pos, At(desc_ligand, 1).pos)

Scenario == \E tz \in {0, 1} : \E lz \in {0, 1} : ScenarioWith(tz, lz)

\* C8 (as claimed): in the scenario the run ends with exactly one group, and
\* that group contains the zero-score pair only.
C8_OnlyZeroScorePair ==
    (pc = "done" /\ Scenario) =>
        \E tz \in {0, 1} : \E lz \in {0, 1} :
            /\ ScenarioWith(tz, lz)
            /\ groups_out = << << <<tz, lz>> >> >>

\* C8 (amended): in the scenario the run ends with exactly one group, and
\* that group holds two pairs: the best-ranked eligible candidate of target
\* patch 0 followed by the best-ranked eligible candidate of target patch 1
\* (one of them has score 0; the other target patch's pair is in the group
\* as well).
C8_OneGroupOfBothBest ==
    (pc = "done" /\ Scenario) =>
        /\ groups_out = << << <<0, BestCandidate(0)>>, <<1, BestCandidate(1)>> >> >>
        /\ \E i \in {1, 2} : ScoreNum(groups_out[1][i][1], groups_out[1][i][2]) = 0

\* C8 witness: the run has returned in the scenario, and the second pair of
\* the group is not a zero-score pair
C8_Witness ==
    /\ pc = "done"
    /\ Scenario
    /\ Len(groups_out) = 1
    /\ Len(groups_out[1]) = 2
    /\ ScoreNum(groups_out[1][2][1], groups_out[1][2][2]) > 0

-----------------------------------------------------------------------------
(* C9 *)

\* C9 (as claimed): the candidates offered to the grouping step for target
\* patch t are eligible ligand patches in ascending order of score, equal
\* scores in ascending order of ligand index, and no eligible ligand patch
\* left out has a strictly smaller score than one that is offered.
C9_OfferedInRankOrder ==
    pc = "group" =>
        /\ \A i \in 1..Len(similarity_list) : similarity_list[i] \in EligibleSet(t)
        /\ \A i \in 1..Len(similarity_list) : \A j \in (i + 1)..Len(similarity_list) :
              RankedBefore(t, similarity_list[i], similarity_list[j])
        /\ \A i \in 1..Len(similarity_list) :
              \A l \in EligibleSet(t) \ {similarity_list[j] : j \in 1..Len(similarity_list)} :
                  ~ScoreLess(t, l, similarity_list[i])

-----------------------------------------------------------------------------
(* C10 *)

\* C10 (as claimed): after build_matching_groups the pairs occurring in the
\* groups are exactly the candidate pairs the ranking keeps over all target
\* patches, no group contains a pair twice, and within every group the target
\* indices are non-decreasing in list order.
C10_GroupsHoldExactlyKeptPairs ==
    pc = "done" =>
        /\ PairsInGroups = {<<tt, l>> \in TargetIndices \X LigandIndices : l \in KeptSet(tt)}
        /\ \A g \in 1..Len(groups_out) :
              \A i \in 1..Len(groups_out[g]) : \A j \in 1..(i - 1) :
                  /\ groups_out[g][i] # groups_out[g][j]
                  /\ groups_out[g][j][1] <= groups_out[g][i][1]

====
